---------------------------- MODULE Spec2Model ----------------------------
(***************************************************************************)
(* Model of the sports-schedule ingestion service.                         *)
(*                                                                         *)
(*   SpecApi : src/api.py, the Flask process: initialize_app, the          *)
(*             background_scraper thread and force_scrape request threads  *)
(*             all calling perform_scraping, which updates scraped_data    *)
(*             and writes live.json / upcoming.json through save_to_json.  *)
(*   SpecVet : src/vet.py, one run_scraper_and_get_data: the listing page  *)
(*             is parsed and filtered to today, then every fixture is      *)
(*             enriched by a task of a thread pool.                        *)
(*   SpecDut : src/dut.py, one run of main: the page is scraped and the    *)
(*             two lists are written by the scraper's save_to_json.        *)
(***************************************************************************)
EXTENDS Integers, Sequences, FiniteSets, TLC

VARIABLES
    \* ---- src/api.py ----
    scraped_data,   \* the module-level dict of api.py:31
    files,          \* live.json and upcoming.json in os.getcwd()
    now,            \* the clock read by datetime.now(); it advances between runs
    pc,             \* where each thread is inside initialize_app / perform_scraping
    broadcasts,     \* perform_scraping's local `broadcasts`, per thread
    sv,             \* the frame of a thread's save_to_json call, and how the call ended
    raised,         \* history: an exception was raised in this run's pipeline
    overlap,        \* history: another run was inside perform_scraping during this run
    saved,          \* history: how this run's save of each file ended
    save_pre,       \* history: the destination as it was when save_to_json was called
    \* ---- src/vet.py ----
    page,               \* the fixture tables of the listing page, in page order
    today,              \* datetime.now().date() of the run
    vpc,                \* where run_scraper_and_get_data is
    today_fixtures,     \* the fixture dicts built by get_fixtures_for_sport (mutated in place)
    task,               \* the future of each fixture's process_fixture_concurrent task
    processed_fixtures, \* the results appended so far, as indexes into today_fixtures
    stats,              \* successful_requests and failed_requests
    progress,           \* completed_tasks and total_tasks
    \* ---- src/dut.py ----
    dpc,            \* where main is, or how it ended
    dbroadcasts,    \* main's local `broadcasts`
    dfiles,         \* live.json and upcoming.json in the working directory
    doff            \* the chunks json.dump has written in the current save_to_json call

apiVars == <<scraped_data, files, now, pc, broadcasts, sv, raised, overlap, saved, save_pre>>

vetVars == <<page, today, vpc, today_fixtures, task, processed_fixtures, stats, progress>>

dutVars == <<dpc, dbroadcasts, dfiles, doff>>

vars == <<apiVars, vetVars, dutVars>>

(***************************************************************************)
(* Bounds of the model.                                                    *)
(***************************************************************************)
MaxRequests == 1    \* force_scrape request threads served at the same time
MaxTime == 2        \* runs of perform_scraping started before the model stops starting more
NChunks == 2        \* write() calls json.dump needs for one document

None == -1          \* Python's None where the other values are numbers

Main == 0           \* the thread importing api.py (initialize_app)
Background == 1     \* the daemon thread running background_scraper
Threads == 0..(MaxRequests + 1)
Callers == Threads \ {Main}

FileNames == {"live.json", "upcoming.json"}

(***************************************************************************)
(* Fixture values.                                                         *)
(***************************************************************************)
Item(name, url, live) == [fixture |-> name, stream_url |-> url, is_live |-> live]

B0 == Item("Porto - Benfica", "https://m.livetv.sx/ev/0", TRUE)
B1 == Item("Arsenal - Chelsea", "https://m.livetv.sx/ev/1", TRUE)
B2 == Item("Lyon - Nice", "", FALSE)
B3 == Item("Ajax - PSV", "#", FALSE)

\* What scrape_broadcasts can return for a page that was fetched and parsed.
Pages == { <<B1, B2>>, <<>> }

\* The listing an earlier process had scraped (what the files may hold at start).
OldPage == <<B0, B2>>

\* categorize_fixtures: live = has a stream URL that is not '', '#', 'N/A'.
has_stream_url(f) == f.stream_url /= "" /\ f.stream_url \notin {"", "#", "N/A"}

categorize_fixtures(bs) ==
    [live |-> SelectSeq(bs, has_stream_url),
     upcoming |-> SelectSeq(bs, LAMBDA f : ~has_stream_url(f))]

\* enhance_fixture_data: a copy with status and broadcast set.
enhance_fixture_data(f) ==
    [fixture |-> f.fixture, stream_url |-> f.stream_url, is_live |-> f.is_live,
     status |-> IF f.is_live THEN "Live" ELSE "Scheduled",
     broadcast |-> IF f.stream_url /= "" THEN "LiveSports808" ELSE "No Stream Available"]

Enhanced(s) == [i \in 1..Len(s) |-> enhance_fixture_data(s[i])]

enhanced_live(bs) == Enhanced(categorize_fixtures(bs).live)
enhanced_upcoming(bs) == Enhanced(categorize_fixtures(bs).upcoming)

\* get_fallback_data: two fixed lists of mock matches.
Mock(name, url, status) ==
    [fixture |-> name, stream_url |-> url, status |-> status,
     broadcast |-> IF url /= "" THEN "LiveSports808" ELSE "No Stream Available"]

get_fallback_data ==
    [live |-> << Mock("Manchester United vs Liverpool", "https://m.livetv.sx/enx/event/123456/", "Live"),
                 Mock("Barcelona vs Real Madrid", "https://m.livetv.sx/enx/event/123457/", "Live") >>,
     upcoming |-> << Mock("PSG vs Marseille", "", "Scheduled"),
                     Mock("Juventus vs AC Milan", "", "Scheduled") >>]

(***************************************************************************)
(* Files.  A file is absent or holds a sequence of chunks; json.dump       *)
(* writes a document as NChunks chunks, chunk i of document d being        *)
(* <<d, i>>.                                                               *)
(***************************************************************************)
Absent == [exists |-> FALSE, content |-> <<>>]
Holding(c) == [exists |-> TRUE, content |-> c]

Serialize(d) == [i \in 1..NChunks |-> <<d, i>>]

IsComplete(c) == Len(c) = NChunks /\ \A i \in 1..NChunks : c[i] = <<c[1][1], i>>

\* json.load: the document of a complete content; anything else raises.
Parses(file) == file.exists /\ IsComplete(file.content)
Document(file) == file.content[1][1]

\* load_from_json: the document, or [] when the file is absent or unreadable.
load_from_json(file) == IF Parses(file) THEN Document(file) ELSE <<>>

\* The files an earlier process may have left: none, the lists of a run,
\* the lists use_fallback_data saved (api.py:369-370), an empty live list.
InitFiles ==
    { [f \in FileNames |-> Absent],
      [f \in FileNames |-> Holding(Serialize(IF f = "live.json"
                                              THEN get_fallback_data.live
                                              ELSE get_fallback_data.upcoming))],
      [f \in FileNames |-> Holding(Serialize(IF f = "live.json"
                                              THEN enhanced_live(OldPage)
                                              ELSE enhanced_upcoming(OldPage)))],
      [f \in FileNames |-> IF f = "live.json" THEN Holding(Serialize(<<>>))
                           ELSE Holding(Serialize(enhanced_upcoming(OldPage)))] }

NoFrame == [file |-> "", data |-> <<>>, off |-> 0, ret |-> "", result |-> "none"]
NoSaves == [f \in FileNames |-> "none"]

InitApiAt(start) ==
    /\ scraped_data = [live_fixtures |-> <<>>, upcoming_fixtures |-> <<>>,
                       last_scrape_time |-> None, is_scraping |-> FALSE,
                       last_successful_scrape |-> None, using_fallback_data |-> FALSE]
    /\ files \in (IF start THEN InitFiles ELSE {[f \in FileNames |-> Absent]})
    /\ now = 0
    /\ pc = [t \in Threads |-> IF ~start THEN "off" ELSE IF t = Main THEN "init" ELSE "idle"]
    /\ broadcasts = [t \in Threads |-> <<>>]
    /\ sv = [t \in Threads |-> NoFrame]
    /\ raised = [t \in Threads |-> FALSE]
    /\ overlap = [t \in Threads |-> FALSE]
    /\ saved = [t \in Threads |-> NoSaves]
    /\ save_pre = [t \in Threads |-> Absent]

\* Between passing the check of api.py:316 and leaving the finally of api.py:356.
InRun(t) == pc[t] \notin {"off", "init", "idle", "called", "done"}

\* Between setting the flag (api.py:320) and clearing it (api.py:356).
InSection(t) == InRun(t) /\ pc[t] /= "set_flag"

(***************************************************************************)
(* save_to_json (api.py:372-380).  open(filepath, 'w') truncates the       *)
(* destination; json.dump then writes the document chunk by chunk through  *)
(* the thread's own descriptor, at the thread's own offset; any exception  *)
(* is caught and logged, and the call returns.                             *)
(***************************************************************************)
\* The content after write() of chunk k at offset k-1 (a gap left by another
\* writer's truncation reads as zero bytes).
WriteAt(c, k, chunk) ==
    [i \in 1..(IF Len(c) > k THEN Len(c) ELSE k) |->
        IF i = k THEN chunk ELSE IF i <= Len(c) THEN c[i] ELSE <<>>]

\* What open(filepath, 'w') leaves of the destination.
OpenForWriting(file) == Holding(<<>>)

\* api.py:375-376: the call, and open succeeding.
SaveOpen(t, at, data, filename, ret) ==
    /\ pc[t] = at
    /\ sv' = [sv EXCEPT ![t] = [file |-> filename, data |-> data, off |-> 0,
                                ret |-> ret, result |-> "none"]]
    /\ save_pre' = [save_pre EXCEPT ![t] = files[filename]]
    /\ files' = [files EXCEPT ![filename] = OpenForWriting(files[filename])]
    /\ pc' = [pc EXCEPT ![t] = "save_write"]
    /\ UNCHANGED <<scraped_data, now, broadcasts, raised, overlap, saved>>
    /\ UNCHANGED <<vetVars, dutVars>>

\* api.py:376, 379-380: open raises (permissions, missing directory); nothing
\* is opened, the handler logs and the call returns.
SaveOpenFails(t, at, data, filename, ret) ==
    /\ pc[t] = at
    /\ sv' = [sv EXCEPT ![t] = [file |-> filename, data |-> data, off |-> 0,
                                ret |-> ret, result |-> "open_failed"]]
    /\ save_pre' = [save_pre EXCEPT ![t] = files[filename]]
    /\ saved' = [saved EXCEPT ![t][filename] = "open_failed"]
    /\ pc' = [pc EXCEPT ![t] = ret]
    /\ UNCHANGED <<scraped_data, files, now, broadcasts, raised, overlap>>
    /\ UNCHANGED <<vetVars, dutVars>>

save_to_json(t, at, data, filename, ret) ==
    \/ SaveOpen(t, at, data, filename, ret)
    \/ SaveOpenFails(t, at, data, filename, ret)

\* api.py:377-378: json.dump writes the next chunk; after the last one the
\* file is closed and the call returns.
SaveWrite(t) ==
    /\ pc[t] = "save_write"
    /\ LET k == sv[t].off + 1
           f == sv[t].file
       IN /\ files' = [files EXCEPT ![f] =
                          Holding(WriteAt(files[f].content, k, Serialize(sv[t].data)[k]))]
          /\ IF k = NChunks
             THEN /\ sv' = [sv EXCEPT ![t].off = k, ![t].result = "ok"]
                  /\ saved' = [saved EXCEPT ![t][f] = "ok"]
                  /\ pc' = [pc EXCEPT ![t] = sv[t].ret]
             ELSE /\ sv' = [sv EXCEPT ![t].off = k]
                  /\ UNCHANGED <<saved, pc>>
    /\ UNCHANGED <<scraped_data, now, broadcasts, raised, overlap, save_pre>>
    /\ UNCHANGED <<vetVars, dutVars>>

\* api.py:377, 379-380: json.dump raises (disk full, I/O error) before its
\* next chunk; the handler logs and the call returns.
SaveWriteFails(t) ==
    /\ pc[t] = "save_write"
    /\ sv' = [sv EXCEPT ![t].result = "write_failed"]
    /\ saved' = [saved EXCEPT ![t][sv[t].file] = "write_failed"]
    /\ pc' = [pc EXCEPT ![t] = sv[t].ret]
    /\ UNCHANGED <<scraped_data, files, now, broadcasts, raised, overlap, save_pre>>
    /\ UNCHANGED <<vetVars, dutVars>>

(***************************************************************************)
(* The callers of perform_scraping.                                        *)
(***************************************************************************)
\* api.py:576-590.  Both files load to non-empty lists: they become the
\* in-memory lists; otherwise the initial scrape is performed.
initialize_app ==
    /\ pc[Main] = "init"
    /\ LET existing_live == load_from_json(files["live.json"])
           existing_upcoming == load_from_json(files["upcoming.json"])
       IN IF existing_live /= <<>> /\ existing_upcoming /= <<>>
          THEN /\ scraped_data' = [scraped_data EXCEPT
                                      !.live_fixtures = existing_live,
                                      !.upcoming_fixtures = existing_upcoming,
                                      !.last_scrape_time = now]
               /\ pc' = [pc EXCEPT ![Main] = "done"]
          ELSE /\ pc' = [pc EXCEPT ![Main] = "called"]
               /\ UNCHANGED scraped_data
    /\ UNCHANGED <<files, now, broadcasts, sv, raised, overlap, saved, save_pre>>
    /\ UNCHANGED <<vetVars, dutVars>>

\* api.py:393-402 and 593-594: the thread is started at the end of
\* initialize_app; after its sleep it calls perform_scraping.
background_scraper ==
    /\ pc[Main] = "done"
    /\ pc[Background] = "idle"
    /\ pc' = [pc EXCEPT ![Background] = "called"]
    /\ UNCHANGED <<scraped_data, files, now, broadcasts, sv, raised, overlap, saved, save_pre>>
    /\ UNCHANGED <<vetVars, dutVars>>

\* api.py:547-550: a POST /api/force-scrape, served once the module is imported.
force_scrape(t) ==
    /\ t \in Callers \ {Background}
    /\ pc[Main] = "done"
    /\ pc[t] = "idle"
    /\ pc' = [pc EXCEPT ![t] = "called"]
    /\ UNCHANGED <<scraped_data, files, now, broadcasts, sv, raised, overlap, saved, save_pre>>
    /\ UNCHANGED <<vetVars, dutVars>>

\* Where a thread is after perform_scraping returns.
Return(t) == IF t = Main THEN "done" ELSE "idle"

(***************************************************************************)
(* perform_scraping (api.py:312-356), statement by statement.              *)
(***************************************************************************)
\* The test of api.py:316.
AlreadyScraping == scraped_data.is_scraping

\* api.py:316-318: the flag is read as set; log and return.
Rejected(t) ==
    /\ pc[t] = "called"
    /\ AlreadyScraping
    /\ pc' = [pc EXCEPT ![t] = Return(t)]
    /\ UNCHANGED <<scraped_data, files, now, broadcasts, sv, raised, overlap, saved, save_pre>>
    /\ UNCHANGED <<vetVars, dutVars>>

\* api.py:316: the flag is read as clear; the thread goes on to line 320.
\* (Time has passed since the run before.)
PassCheck(t) ==
    /\ pc[t] = "called"
    /\ ~AlreadyScraping
    /\ now < MaxTime
    /\ now' = now + 1
    /\ pc' = [pc EXCEPT ![t] = "set_flag"]
    /\ overlap' = [u \in Threads |->
                      IF u = t THEN \E w \in Threads \ {t} : InRun(w)
                      ELSE overlap[u] \/ InRun(u)]
    /\ UNCHANGED <<scraped_data, files, broadcasts, sv, raised, saved, save_pre>>
    /\ UNCHANGED <<vetVars, dutVars>>

\* api.py:320.
SetFlag(t) ==
    /\ pc[t] = "set_flag"
    /\ scraped_data' = [scraped_data EXCEPT !.is_scraping = TRUE]
    /\ pc' = [pc EXCEPT ![t] = "scrape"]
    /\ UNCHANGED <<files, now, broadcasts, sv, raised, overlap, saved, save_pre>>
    /\ UNCHANGED <<vetVars, dutVars>>

\* api.py:327: `if broadcasts:` chooses the update or the fallback.
Branch(bs) == IF bs /= <<>> THEN "l336" ELSE "l363"

\* api.py:325-327, scrape_broadcasts (api.py:75-95) fetched and parsed the page.
ScrapeBroadcasts(t) ==
    /\ pc[t] = "scrape"
    /\ \E bs \in Pages :
          /\ broadcasts' = [broadcasts EXCEPT ![t] = bs]
          /\ pc' = [pc EXCEPT ![t] = Branch(bs)]
    /\ UNCHANGED <<scraped_data, files, now, sv, raised, overlap, saved, save_pre>>
    /\ UNCHANGED <<vetVars, dutVars>>

\* api.py:97-102, 325-327: the request or the parse raised; scrape_broadcasts
\* logs and returns [].
ScrapeFails(t) ==
    /\ pc[t] = "scrape"
    /\ broadcasts' = [broadcasts EXCEPT ![t] = <<>>]
    /\ raised' = [raised EXCEPT ![t] = TRUE]
    /\ pc' = [pc EXCEPT ![t] = Branch(<<>>)]
    /\ UNCHANGED <<scraped_data, files, now, sv, overlap, saved, save_pre>>
    /\ UNCHANGED <<vetVars, dutVars>>

\* api.py:329-336.
SetLive(t) ==
    /\ pc[t] = "l336"
    /\ scraped_data' = [scraped_data EXCEPT !.live_fixtures = enhanced_live(broadcasts[t])]
    /\ pc' = [pc EXCEPT ![t] = "l337"]
    /\ UNCHANGED <<files, now, broadcasts, sv, raised, overlap, saved, save_pre>>
    /\ UNCHANGED <<vetVars, dutVars>>

\* api.py:337.
SetUpcoming(t) ==
    /\ pc[t] = "l337"
    /\ scraped_data' = [scraped_data EXCEPT
                           !.upcoming_fixtures = enhanced_upcoming(broadcasts[t])]
    /\ pc' = [pc EXCEPT ![t] = "l338"]
    /\ UNCHANGED <<files, now, broadcasts, sv, raised, overlap, saved, save_pre>>
    /\ UNCHANGED <<vetVars, dutVars>>

\* api.py:338-340.
SetTimes(t) ==
    /\ pc[t] = "l338"
    /\ scraped_data' = [scraped_data EXCEPT !.last_scrape_time = now,
                                            !.last_successful_scrape = now,
                                            !.using_fallback_data = FALSE]
    /\ pc' = [pc EXCEPT ![t] = "l345"]
    /\ UNCHANGED <<files, now, broadcasts, sv, raised, overlap, saved, save_pre>>
    /\ UNCHANGED <<vetVars, dutVars>>

\* api.py:345.
SaveLive(t) ==
    save_to_json(t, "l345", enhanced_live(broadcasts[t]), "live.json", "l346")

\* api.py:346.
SaveUpcoming(t) ==
    save_to_json(t, "l346", enhanced_upcoming(broadcasts[t]), "upcoming.json", "finally")

\* api.py:352-354: a statement of the try body raised (categorize_fixtures or
\* enhance_fixture_data on line 329-333, the logging call of line 342); the
\* handler logs and calls use_fallback_data.
PipelineException(t) ==
    /\ pc[t] \in {"l336", "l345"}
    /\ raised' = [raised EXCEPT ![t] = TRUE]
    /\ pc' = [pc EXCEPT ![t] = "l363"]
    /\ UNCHANGED <<scraped_data, files, now, broadcasts, sv, overlap, saved, save_pre>>
    /\ UNCHANGED <<vetVars, dutVars>>

(***************************************************************************)
(* use_fallback_data (api.py:358-370), called at api.py:350 and 354.       *)
(***************************************************************************)
\* api.py:361-363.
FallbackLive(t) ==
    /\ pc[t] = "l363"
    /\ scraped_data' = [scraped_data EXCEPT !.live_fixtures = get_fallback_data.live]
    /\ pc' = [pc EXCEPT ![t] = "l364"]
    /\ UNCHANGED <<files, now, broadcasts, sv, raised, overlap, saved, save_pre>>
    /\ UNCHANGED <<vetVars, dutVars>>

\* api.py:364.
FallbackUpcoming(t) ==
    /\ pc[t] = "l364"
    /\ scraped_data' = [scraped_data EXCEPT !.upcoming_fixtures = get_fallback_data.upcoming]
    /\ pc' = [pc EXCEPT ![t] = "l365"]
    /\ UNCHANGED <<files, now, broadcasts, sv, raised, overlap, saved, save_pre>>
    /\ UNCHANGED <<vetVars, dutVars>>

\* api.py:365-366.
FallbackTimes(t) ==
    /\ pc[t] = "l365"
    /\ scraped_data' = [scraped_data EXCEPT !.last_scrape_time = now,
                                            !.using_fallback_data = TRUE]
    /\ pc' = [pc EXCEPT ![t] = "l369"]
    /\ UNCHANGED <<files, now, broadcasts, sv, raised, overlap, saved, save_pre>>
    /\ UNCHANGED <<vetVars, dutVars>>

\* use_fallback_data that forgets to persist the live list.
FallbackSaveLive_NotPersisted(t) ==
    /\ pc[t] = "l369"
    /\ pc' = [pc EXCEPT ![t] = "l370"]
    /\ UNCHANGED <<scraped_data, files, now, broadcasts, sv, raised, overlap, saved, save_pre>>
    /\ UNCHANGED <<vetVars, dutVars>>

\* api.py:369.
FallbackSaveLive(t) ==
    save_to_json(t, "l369", get_fallback_data.live, "live.json", "l370")

\* api.py:370.
FallbackSaveUpcoming(t) ==
    save_to_json(t, "l370", get_fallback_data.upcoming, "upcoming.json", "finally")

use_fallback_data(t) ==
    \/ FallbackLive(t)
    \/ FallbackUpcoming(t)
    \/ FallbackTimes(t)
    \/ FallbackSaveLive(t)
    \/ FallbackSaveUpcoming(t)

\* api.py:355-356: the finally clause clears the flag and the call returns;
\* the locals of the call are gone.
Finally(t) ==
    /\ pc[t] = "finally"
    /\ scraped_data' = [scraped_data EXCEPT !.is_scraping = FALSE]
    /\ pc' = [pc EXCEPT ![t] = Return(t)]
    /\ broadcasts' = [broadcasts EXCEPT ![t] = <<>>]
    /\ sv' = [sv EXCEPT ![t] = NoFrame]
    /\ raised' = [raised EXCEPT ![t] = FALSE]
    /\ overlap' = [overlap EXCEPT ![t] = FALSE]
    /\ saved' = [saved EXCEPT ![t] = NoSaves]
    /\ save_pre' = [save_pre EXCEPT ![t] = Absent]
    /\ UNCHANGED <<files, now>>
    /\ UNCHANGED <<vetVars, dutVars>>

perform_scraping(t) ==
    \/ Rejected(t)
    \/ PassCheck(t)
    \/ SetFlag(t)
    \/ ScrapeBroadcasts(t)
    \/ ScrapeFails(t)
    \/ SetLive(t)
    \/ SetUpcoming(t)
    \/ SetTimes(t)
    \/ SaveLive(t)
    \/ SaveUpcoming(t)
    \/ PipelineException(t)
    \/ use_fallback_data(t)
    \/ SaveWrite(t)
    \/ SaveWriteFails(t)
    \/ Finally(t)

(***************************************************************************)
(* Properties of src/api.py, checked under SpecApi.                        *)
(***************************************************************************)
\* A step of thread t.
StepOf(t) == pc'[t] /= pc[t] \/ sv'[t] /= sv[t]

\* C1: at most one invocation of perform_scraping is inside the scraping
\* section (between setting the in-progress flag and clearing it) at any
\* moment, for every interleaving of its callers.
C1_OneRunAtATime == Cardinality({t \in Threads : InSection(t)}) <= 1

\* C2: while a save_to_json call is under way on a destination that held a
\* complete document, a reader of the destination sees either the content it
\* had before the call or the complete new content, never an empty, truncated
\* or partly written file.
C2_AtomicPersist ==
    \A t \in Threads :
        (pc[t] = "save_write" /\ Parses(save_pre[t]))
            => \/ files[sv[t].file] = save_pre[t]
               \/ files[sv[t].file] = Holding(Serialize(sv[t].data))

\* C3: when a save_to_json call on a destination that held a complete
\* document has failed (at open or at a write) and returns, the destination
\* has the content it had before the call.
C3_FailedSaveIsNoOp ==
    \A t \in Threads :
        (/\ pc[t] = sv[t].ret
         /\ sv[t].result \in {"open_failed", "write_failed"}
         /\ Parses(save_pre[t]))
            => files[sv[t].file] = save_pre[t]

IsProperPrefix(c, d) == Len(c) < Len(d) /\ \A i \in 1..Len(c) : c[i] = d[i]

FallbackFor(f) == IF f = "live.json" THEN get_fallback_data.live
                  ELSE get_fallback_data.upcoming

C5_SecondInvocationIsNoOp ==
    [][\A t \in Threads :
          (pc[t] = "called" /\ StepOf(t) /\ \E u \in Threads \ {t} : InRun(u))
              => /\ pc'[t] = Return(t)
                 /\ UNCHANGED <<scraped_data, files>>]_vars

\* C22: the in-progress flag tracks run execution exactly: in every state,
\* scraped_data['is_scraping'] is true if and only if some invocation of
\* perform_scraping is between setting the flag and clearing it.
C22_FlagTracksRun ==
    scraped_data.is_scraping <=> (\E t \in Threads : InSection(t))

\* The pairs of lists one update writes: the load of initialize_app
\* (api.py:581-582), a run that found broadcasts (api.py:336-337), and
\* use_fallback_data (api.py:363-364).
Snapshots ==
    { [live |-> load_from_json(fs["live.json"]),
       upcoming |-> load_from_json(fs["upcoming.json"])] : fs \in InitFiles }
    \cup { [live |-> enhanced_live(bs), upcoming |-> enhanced_upcoming(bs)] :
           bs \in Pages \ { <<>> } }
    \cup { [live |-> get_fallback_data.live, upcoming |-> get_fallback_data.upcoming] }

\* What the two subscripts of api.py:523 (get_all_fixtures) or api.py:505
\* (get_hero_fixtures) give a request served now, with no thread scheduled
\* between them.
all_fixtures ==
    [live |-> scraped_data.live_fixtures, upcoming |-> scraped_data.upcoming_fixtures]

\* C23: a request that reads both live_fixtures and upcoming_fixtures while
\* a run or a fallback is updating scraped_data observes values written by
\* the same update: at every moment a request can be served (the module is
\* imported), the two lists it reads are a pair that one update wrote, never
\* one list of one update and the other list of another.
C23_ConsistentSnapshot == pc[Main] = "done" => all_fixtures \in Snapshots

\* No invocation of perform_scraping is under way and requests are served.
Quiescent == pc[Main] = "done" /\ \A t \in Threads : ~InRun(t)

\* The lists held in memory are the mock lists of get_fallback_data.
HoldsFallbackData ==
    /\ scraped_data.live_fixtures = get_fallback_data.live
    /\ scraped_data.upcoming_fixtures = get_fallback_data.upcoming

\* C25: using_fallback_data is true exactly when the fixture lists held in
\* scraped_data are fallback mock data: after any sequence of initialisation
\* from existing files, successful runs, empty runs and failing runs, the
\* flag is set if and only if the lists are those use_fallback_data wrote, or
\* were loaded from files it wrote.
C25_FlagMeansFallback ==
    Quiescent => (scraped_data.using_fallback_data <=> HoldsFallbackData)

NextApi ==
    \/ initialize_app
    \/ background_scraper
    \/ \E t \in Threads : force_scrape(t)
    \/ \E t \in Threads : perform_scraping(t)

(***************************************************************************)
(* src/vet.py: the listing page.                                           *)
(*                                                                         *)
(* A fixture table carries a link (matchup text and href), an evdesc span  *)
(* (the raw date text) and possibly the live icon.  An href is kept as its *)
(* form (root-relative or absolute), its host and path, and the digits     *)
(* that re.search(r'/eventinfo/(\d+)') finds in it ("" when none).  A raw  *)
(* date text is kept as its shape and the day and month it names:          *)
(*   "full" : "2 November at 19:30"  (the pattern matches, strptime parses)*)
(*   "abbr" : "2 Nov at 19:30"       (the pattern matches, %B does not)    *)
(*   "noat" : "2 November 19:30"     (the pattern does not match)          *)
(*   "none" : the table has no evdesc span                                 *)
(***************************************************************************)
MaxRows == 3        \* fixture tables on the listing page
MaxWorkers == 2     \* max_workers of the pool, scaled to MaxRows

base_url == "https://livetv.sx"

NoHref == [form |-> "none", host |-> "", path |-> "", digits |-> ""]
Rel(path, digits) == [form |-> "rel", host |-> "", path |-> path, digits |-> digits]
Abs(host, path, digits) == [form |-> "abs", host |-> host, path |-> path, digits |-> digits]

DateText(form, day, month) == [form |-> form, day |-> day, month |-> month]
NoDateText == DateText("none", 0, 0)

Table(matchup, href, date, live) ==
    [matchup |-> matchup, href |-> href, evdesc |-> date, live_gif |-> live]

Tables ==
    { Table("Arsenal - Chelsea", Rel("/eventinfo/1_arsenal_chelsea/", "1"),
            DateText("full", 2, 11), TRUE),
      Table("Arsenal v Chelsea", Rel("/eventinfo/1_arsenal_chelsea/", "1"),
            DateText("noat", 2, 11), FALSE),
      Table("Lyon - Nice", Rel("/eventinfo/2_lyon_nice/", "2"),
            DateText("full", 3, 11), FALSE),
      Table("Ajax - PSV", Abs(base_url, "/eventinfo/1_arsenal_chelsea/", "1"),
            DateText("full", 2, 11), TRUE),
      Table("Porto - Benfica", Rel("/live/9/", ""),
            DateText("abbr", 2, 11), FALSE),
      Table("Roma - Lazio", NoHref,
            DateText("full", 2, 11), FALSE),
      Table("Celtic - Rangers", Rel("/eventinfo/2_lyon_nice/", "2"),
            DateText("full", 2, 12), TRUE),
      Table("Genk - Gent", Rel("/eventinfo/3_genk_gent/", "3"),
            NoDateText, TRUE) }

Days == { [month |-> 11, day |-> 2], [month |-> 11, day |-> 3] }

\* The sequences of at most n different elements of S.
RECURSIVE DistinctSeqsUpTo(_, _)
DistinctSeqsUpTo(S, n) ==
    IF n = 0 THEN { <<>> }
    ELSE LET shorter == DistinctSeqsUpTo(S, n - 1)
             longest == { r \in shorter : Len(r) = n - 1 }
             Unused(q) == { x \in S : \A k \in 1..Len(q) : q[k] /= x }
         IN shorter \cup UNION { { Append(q, x) : x \in Unused(q) } : q \in longest }

\* The listing pages: up to MaxRows different tables, in any order.
ListingPages == DistinctSeqsUpTo(Tables, MaxRows)

(***************************************************************************)
(* A fixture dict: the set of its keys, and a value for every key (a fixed *)
(* filler for a key that is not set).                                      *)
(***************************************************************************)
NoUrl == [host |-> "", path |-> ""]
NoDay == [month |-> 0, day |-> 0]

\* vet.py:91-92: re.search(month_pattern, date_time_text) matches.
MonthPatternMatches(date) == date.form \in {"full", "abbr"}

\* vet.py:97: strptime(date_part, '%d %B at %H:%M') parses.
StrptimeParses(date) == date.form = "full"

\* vet.py:61-69: the event URL of an href.
EventUrl(href) ==
    IF href.form = "rel" THEN [host |-> base_url, path |-> href.path]
    ELSE [host |-> href.host, path |-> href.path]

\* vet.py:45-114, for a table that has a link.  parsed_datetime and
\* datetime_obj are set together and hold the same date: one key stands for both.
parse_broadcast_item(table) ==
    LET href == table.href
        date == table.evdesc
        hasUrl == href.form /= "none"
        hasId == href.form = "rel" /\ href.digits /= ""
        hasDate == date.form /= "none"
        matched == hasDate /\ MonthPatternMatches(date)
    IN [keys |-> {"matchup", "is_live"}
                 \cup (IF hasUrl THEN {"event_url"} ELSE {})
                 \cup (IF hasId THEN {"event_id"} ELSE {})
                 \cup (IF hasDate THEN {"date_time"} ELSE {})
                 \cup (IF matched THEN {"parsed_datetime"} ELSE {}),
        matchup |-> table.matchup,
        event_url |-> IF hasUrl THEN EventUrl(href) ELSE NoUrl,
        event_id |-> IF hasId THEN href.digits ELSE "",
        date_time |-> date,
        parsed_datetime |-> IF matched /\ StrptimeParses(date)
                            THEN [month |-> date.month, day |-> date.day]
                            ELSE NoDay,
        is_live |-> table.live_gif,
        team_logos |-> <<>>,
        streams |-> <<>>]

\* fixture.get('datetime_obj') is truthy: the key is set and is not None.
HasDatetime(fixture) ==
    "parsed_datetime" \in fixture.keys /\ fixture.parsed_datetime /= NoDay

\* vet.py:150-151: the day of the month, followed by a word, is in the text.
DayTokenIn(date, today_day) == date.form /= "none" /\ date.day = today_day

\* A test that goes on to the raw text when the parsed date is another day.
is_today_FallsThrough(fixture, day) ==
    \/ HasDatetime(fixture) /\ fixture.parsed_datetime = day
    \/ "date_time" \in fixture.keys /\ DayTokenIn(fixture.date_time, day.day)

\* vet.py:142-152.
is_today(fixture, day) ==
    IF HasDatetime(fixture) THEN fixture.parsed_datetime = day
    ELSE IF "date_time" \in fixture.keys THEN DayTokenIn(fixture.date_time, day.day)
    ELSE FALSE

\* A dedup that compares nothing.
is_duplicate_Never(fixture, fixtures) == FALSE

\* vet.py:155-159.
is_duplicate(fixture, fixtures) ==
    \E k \in 1..Len(fixtures) :
        /\ "event_id" \in fixtures[k].keys
        /\ "event_id" \in fixture.keys
        /\ fixtures[k].event_id = fixture.event_id

\* The loop body without the `if is_today:` test.
KeepFixture_Unfiltered(fixture, day, fixtures) == ~is_duplicate(fixture, fixtures)

\* vet.py:154-162: the fixture is appended.
KeepFixture(fixture, day, fixtures) ==
    is_today(fixture, day) /\ ~is_duplicate(fixture, fixtures)

\* A loop in which a later row of an identifier replaces the fixture kept.
RECURSIVE ParseTables_LastWins(_, _, _)
ParseTables_LastWins(tables, n, day) ==
    IF n = 0 THEN <<>>
    ELSE LET fixtures == ParseTables_LastWins(tables, n - 1, day)
             fixture == parse_broadcast_item(tables[n])
         IN IF ~is_today(fixture, day) THEN fixtures
            ELSE IF is_duplicate(fixture, fixtures)
                 THEN [k \in 1..Len(fixtures) |->
                         IF is_duplicate(fixture, <<fixtures[k]>>) THEN fixture
                         ELSE fixtures[k]]
                 ELSE Append(fixtures, fixture)

\* vet.py:139-165: the loop over the tables.
RECURSIVE ParseTables(_, _, _)
ParseTables(tables, n, day) ==
    IF n = 0 THEN <<>>
    ELSE LET fixtures == ParseTables(tables, n - 1, day)
             fixture == parse_broadcast_item(tables[n])
         IN IF KeepFixture(fixture, day, fixtures) THEN Append(fixtures, fixture)
            ELSE fixtures

(***************************************************************************)
(* src/vet.py: the detail pages.  The upstream serves one document per     *)
(* URL: its logo images and the tables of its links_block.                 *)
(***************************************************************************)
Logo(alt, src) == [alt |-> alt, src |-> src]
StreamTable(cells, lang, href) == [cells |-> cells, language |-> lang, href |-> href]

DetailPage(url) ==
    IF url.path = "/eventinfo/1_arsenal_chelsea/"
    THEN [logos |-> << Logo("Arsenal", Rel("/logos/ars.png", "")),
                       Logo("Chelsea", Abs("cdn.livetv.sx", "/logos/che.png", "")) >>,
          links |-> << StreamTable(7, "English", Rel("/webplayer/11", "")),
                       StreamTable(4, "", NoHref),
                       StreamTable(7, "Spanish", Abs("cdn.livetv.sx", "/webplayer/12", "")) >>]
    ELSE IF url.path = "/eventinfo/2_lyon_nice/"
    THEN [logos |-> <<>>,
          links |-> << StreamTable(7, "French", Rel("/webplayer/21", "")) >>]
    ELSE [logos |-> << Logo("Porto", Rel("/logos/por.png", "")) >>,
          links |-> <<>>]

\* vet.py:286-291, 240-245: a src or href made absolute.
Resolve(href) ==
    IF href.form = "rel" THEN [host |-> base_url, path |-> href.path]
    ELSE [host |-> href.host, path |-> href.path]

\* vet.py:211-262: None for a table of fewer than 7 cells.
ParsesAsStream(table) == table.cells >= 7

parse_stream_table(table) ==
    [language |-> table.language, stream_url |-> Resolve(table.href)]

CompletionOrders(n) == { f \in [1..n -> 1..n] : \A a, b \in 1..n : f[a] = f[b] => a = b }

\* vet.py:299-314: the tables are parsed by an inner pool and their results
\* appended in completion order; `order` is that order.
StreamsInOrder(links, order) ==
    LET done == [k \in 1..Len(links) |-> links[order[k]]]
        kept == SelectSeq(done, ParsesAsStream)
    IN [k \in 1..Len(kept) |-> parse_stream_table(kept[k])]

NoDetails == [ok |-> FALSE, team_logos |-> <<>>, streams |-> <<>>]

\* What a detail request can come to: the page, a failed request
\* (vet.py:267-268), or a response whose parsing raises (vet.py:273-317).
Responses == {"ok", "failed", "parse_error"}

\* vet.py:264-321: None when the request or the parsing fails, otherwise the
\* event data.
get_event_details_concurrent(event_url, response, order) ==
    IF response /= "ok" THEN NoDetails
    ELSE LET doc == DetailPage(event_url)
         IN [ok |-> TRUE,
             team_logos |-> [k \in 1..Len(doc.logos) |->
                               [team_name |-> doc.logos[k].alt,
                                logo_url |-> Resolve(doc.logos[k].src)]],
             streams |-> StreamsInOrder(doc.links, order)]

\* An enrichment that marks a fixture live when its page lists streams.
process_fixture_concurrent_MarksLive(fixture, detailed_info) ==
    IF detailed_info.ok /\ detailed_info.streams /= <<>>
    THEN [raised |-> FALSE,
          fixture |-> [fixture EXCEPT !.keys = @ \cup {"streams"},
                                      !.streams = detailed_info.streams,
                                      !.is_live = TRUE]]
    ELSE [raised |-> FALSE, fixture |-> fixture]

\* process_fixture_concurrent without its guards: a missing detailed_info
\* raises out of the task.
process_fixture_concurrent_Unguarded(fixture, detailed_info) ==
    IF ~detailed_info.ok THEN [raised |-> TRUE, fixture |-> fixture]
    ELSE [raised |-> FALSE,
          fixture |-> [fixture EXCEPT !.keys = @ \cup {"team_logos", "streams"},
                                      !.team_logos = detailed_info.team_logos,
                                      !.streams = detailed_info.streams]]

\* vet.py:331-336, 343-350: the fixture after the task, and whether an
\* exception leaves the task (every exception is caught: none does).
process_fixture_concurrent(fixture, detailed_info) ==
    LET withLogos == IF detailed_info.ok /\ detailed_info.team_logos /= <<>>
                     THEN [fixture EXCEPT !.keys = @ \cup {"team_logos"},
                                          !.team_logos = detailed_info.team_logos]
                     ELSE fixture
        withStreams == IF detailed_info.ok /\ detailed_info.streams /= <<>>
                       THEN [withLogos EXCEPT !.keys = @ \cup {"streams"},
                                              !.streams = detailed_info.streams]
                       ELSE withLogos
    IN [raised |-> FALSE, fixture |-> withStreams]

(***************************************************************************)
(* run_scraper_and_get_data (vet.py:398-417).                              *)
(***************************************************************************)
NoTask == [st |-> "pending", fetch |-> "none", raised |-> FALSE]

InitVetAt(start) ==
    /\ page \in (IF start THEN ListingPages ELSE { <<>> })
    /\ today \in (IF start THEN Days ELSE { [month |-> 11, day |-> 2] })
    /\ vpc = IF start THEN "start" ELSE "off"
    /\ today_fixtures = <<>>
    /\ task = <<>>
    /\ processed_fixtures = <<>>
    /\ stats = [successful_requests |-> 0, failed_requests |-> 0]
    /\ progress = [completed_tasks |-> 0, total_tasks |-> 0]

\* vet.py:408-411, 119-165: the listing is fetched and parsed; an empty list
\* ends the run.
get_fixtures_for_sport ==
    /\ vpc = "start"
    /\ LET fixtures == ParseTables(page, Len(page), today)
       IN /\ today_fixtures' = fixtures
          /\ vpc' = IF fixtures = <<>> THEN "done" ELSE "l414"
    /\ stats' = [stats EXCEPT !.successful_requests = @ + 1]
    /\ UNCHANGED <<page, today, task, processed_fixtures, progress>>
    /\ UNCHANGED <<apiVars, dutVars>>

\* vet.py:167-171, 410-411: the request fails.
ListingRequestFails ==
    /\ vpc = "start"
    /\ stats' = [stats EXCEPT !.failed_requests = @ + 1]
    /\ vpc' = "done"
    /\ UNCHANGED <<page, today, today_fixtures, task, processed_fixtures, progress>>
    /\ UNCHANGED <<apiVars, dutVars>>

\* vet.py:172-174, 410-411: parsing the response raises.
ListingParseFails ==
    /\ vpc = "start"
    /\ stats' = [stats EXCEPT !.successful_requests = @ + 1]
    /\ vpc' = "done"
    /\ UNCHANGED <<page, today, today_fixtures, task, processed_fixtures, progress>>
    /\ UNCHANGED <<apiVars, dutVars>>

\* vet.py:364-375: the counters are reset and one task per fixture submitted.
Submit ==
    /\ vpc = "l414"
    /\ progress' = [completed_tasks |-> 0, total_tasks |-> Len(today_fixtures)]
    /\ task' = [i \in 1..Len(today_fixtures) |-> NoTask]
    /\ vpc' = "as_completed"
    /\ UNCHANGED <<page, today, today_fixtures, processed_fixtures, stats>>
    /\ UNCHANGED <<apiVars, dutVars>>

Running == { i \in 1..Len(task) : task[i].st = "running" }

\* A pool that starts a thread for every task submitted.
WorkerFree_Unbounded(running) == TRUE

\* vet.py:372: ThreadPoolExecutor(max_workers) runs a task only on one of its
\* max_workers threads.
WorkerFree(running) == Cardinality(running) < MaxWorkers

\* A worker of the pool takes the next task of the queue.
StartTask(i) ==
    /\ vpc = "as_completed"
    /\ i \in 1..Len(task)
    /\ task[i].st = "pending"
    /\ \A j \in 1..(i - 1) : task[j].st /= "pending"
    /\ WorkerFree(Running)
    /\ task' = [task EXCEPT ![i].st = "running"]
    /\ UNCHANGED <<page, today, vpc, today_fixtures, processed_fixtures, stats, progress>>
    /\ UNCHANGED <<apiVars, dutVars>>

\* vet.py:299-304: the inner pool runs only for a document that was
\* received and parsed; n is the number of its stream tables.
InnerOrders(response, n) ==
    IF response = "ok" THEN CompletionOrders(n) ELSE { [k \in 1..n |-> k] }

\* vet.py:323-350: the task of a fixture that has an event URL runs to its end.
RunTask(i) ==
    /\ i \in 1..Len(task)
    /\ task[i].st = "running"
    /\ "event_url" \in today_fixtures[i].keys
    /\ \E response \in Responses :
       \E order \in InnerOrders(response, Len(DetailPage(today_fixtures[i].event_url).links)) :
          LET info == get_event_details_concurrent(today_fixtures[i].event_url, response, order)
              res == process_fixture_concurrent(today_fixtures[i], info)
          IN /\ today_fixtures' = [today_fixtures EXCEPT ![i] = res.fixture]
             /\ task' = [task EXCEPT ![i] = [st |-> "done", fetch |-> response,
                                             raised |-> res.raised]]
             /\ stats' = [successful_requests |->
                             stats.successful_requests + (IF response = "failed" THEN 0 ELSE 1),
                          failed_requests |->
                             stats.failed_requests + (IF response = "ok" THEN 0 ELSE 1)]
    /\ progress' = [progress EXCEPT !.completed_tasks = @ + 1]
    /\ UNCHANGED <<page, today, vpc, processed_fixtures>>
    /\ UNCHANGED <<apiVars, dutVars>>

\* vet.py:326-328, 343: the task of a fixture without an event URL returns it.
RunTaskNoUrl(i) ==
    /\ i \in 1..Len(task)
    /\ task[i].st = "running"
    /\ "event_url" \notin today_fixtures[i].keys
    /\ task' = [task EXCEPT ![i] = [st |-> "done", fetch |-> "none", raised |-> FALSE]]
    /\ UNCHANGED <<page, today, vpc, today_fixtures, processed_fixtures, stats, progress>>
    /\ UNCHANGED <<apiVars, dutVars>>

\* A collection loop that stops appending once a task's fetch has failed.
Collected_StopsAtFailure(results, i, tasks) ==
    IF \E j \in 1..Len(tasks) : j /= i /\ tasks[j].fetch \in {"failed", "parse_error"}
    THEN results
    ELSE Append(results, i)

\* A merge that keeps a result only when no task submitted later has
\* already been merged.
Collected_DropsOutOfOrder(results, i, tasks) ==
    IF \E k \in 1..Len(results) : results[k] > i THEN results ELSE Append(results, i)

\* vet.py:379-388: the result of a finished task is appended; a task that
\* raised is passed over.
Collected(results, i, tasks) ==
    IF tasks[i].raised THEN results ELSE Append(results, i)

\* vet.py:378-388: as_completed yields a finished future.
Collect(i) ==
    /\ vpc = "as_completed"
    /\ i \in 1..Len(task)
    /\ task[i].st = "done"
    /\ processed_fixtures' = Collected(processed_fixtures, i, task)
    /\ task' = [task EXCEPT ![i].st = "collected"]
    /\ UNCHANGED <<page, today, vpc, today_fixtures, stats, progress>>
    /\ UNCHANGED <<apiVars, dutVars>>

\* vet.py:392, 417: every future was yielded; the list is returned.
ReturnFixtures ==
    /\ vpc = "as_completed"
    /\ \A i \in 1..Len(task) : task[i].st = "collected"
    /\ vpc' = "done"
    /\ UNCHANGED <<page, today, today_fixtures, task, processed_fixtures, stats, progress>>
    /\ UNCHANGED <<apiVars, dutVars>>

\* The list run_scraper_and_get_data returns.
Output == [k \in 1..Len(processed_fixtures) |-> today_fixtures[processed_fixtures[k]]]

(***************************************************************************)
(* Properties of run_scraper_and_get_data.                                 *)
(***************************************************************************)
\* The stubs get_fixtures_for_sport returns for the page.
Stubs == ParseTables(page, Len(page), today)

\* The task of fixture i fetched its detail page and failed.
TaskFailed(i) == task[i].fetch \in {"failed", "parse_error"}

\* Where fixture i is in the collected results.
PositionsOf(i) == { k \in 1..Len(processed_fixtures) : processed_fixtures[k] = i }

\* The records stub i can become when its own task does not fail.
Enrichments(stub) ==
    IF "event_url" \notin stub.keys THEN { stub }
    ELSE { process_fixture_concurrent(stub,
               get_event_details_concurrent(stub.event_url, "ok", order)).fixture :
           order \in CompletionOrders(Len(DetailPage(stub.event_url).links)) }

\* C6: in the output of a run, whatever the listing page and whatever the
\* outcome of the detail tasks, no two records carry the same event identifier.
C6_UniqueEventIds ==
    \A a, b \in 1..Len(Output) :
        (a /= b /\ "event_id" \in Output[a].keys /\ "event_id" \in Output[b].keys)
            => Output[a].event_id /= Output[b].event_id

\* Two records are returned for a page on which two rows of today carry one
\* event identifier, and a detail task failed.
C6_Witness ==
    /\ vpc = "done"
    /\ Len(Output) >= 2
    /\ \E i \in 1..Len(task) : TaskFailed(i)
    /\ \E m, n \in 1..Len(page) :
          LET f == parse_broadcast_item(page[m])
              g == parse_broadcast_item(page[n])
          IN /\ m < n
             /\ is_today(f, today) /\ is_today(g, today)
             /\ "event_id" \in f.keys /\ "event_id" \in g.keys
             /\ f.event_id = g.event_id

\* C7: the rows of today that share one detail URL give exactly one record of
\* the output, whatever the form of the shared href: no two records of the
\* output have the same detail URL.
C7_OneRecordPerDetailUrl ==
    \A a, b \in 1..Len(Output) :
        (a /= b /\ "event_url" \in Output[a].keys /\ "event_url" \in Output[b].keys)
            => Output[a].event_url /= Output[b].event_url

\* C8: a stub for which the "is today" test is false is never in the output,
\* whatever its identifier, live flag and detail URL and whatever the detail
\* tasks come to: every record of the output comes from a row of today.
C8_NotTodayNeverInOutput ==
    \A k \in 1..Len(Output) :
        \A n \in 1..Len(page) :
            Output[k].matchup = page[n].matchup
                => is_today(parse_broadcast_item(page[n]), today)

\* A run returned records for a page that has a live row with an identifier
\* and a detail URL that is not of today, and a detail task failed.
C8_Witness ==
    /\ vpc = "done"
    /\ Len(Output) >= 1
    /\ \E i \in 1..Len(task) : TaskFailed(i)
    /\ \E n \in 1..Len(page) :
          LET f == parse_broadcast_item(page[n])
          IN /\ ~is_today(f, today)
             /\ {"event_id", "event_url"} \subseteq f.keys
             /\ f.is_live

\* C9: a failed detail fetch of one fixture removes no other fixture: once
\* the run returned, every stub whose own task did not fail is in the output
\* exactly once, as a record it can become when no task fails.
C9_FailureLeavesOthers ==
    vpc = "done" =>
        \A i \in 1..Len(task) :
            ~TaskFailed(i) =>
                /\ Cardinality(PositionsOf(i)) = 1
                /\ today_fixtures[i] \in Enrichments(Stubs[i])

\* A run returned in which the task of one fixture failed and another
\* fixture, collected after it, has its streams.
C9_Witness ==
    /\ vpc = "done"
    /\ \E i, j \in 1..Len(task) :
          /\ TaskFailed(i)
          /\ ~TaskFailed(j)
          /\ "streams" \in today_fixtures[j].keys
          /\ \E a \in PositionsOf(i), b \in PositionsOf(j) : a < b

\* C10: a detail task that fails does not fail the run and its stub is still
\* returned, without enrichment data: the results are as many as the stubs,
\* and the record of a failed task is the stub it was given.
C10_ResultPerStub ==
    vpc = "done" =>
        /\ Len(processed_fixtures) = Len(today_fixtures)
        /\ \A i \in 1..Len(task) :
              TaskFailed(i) =>
                  /\ PositionsOf(i) /= {}
                  /\ today_fixtures[i] = Stubs[i]
                  /\ {"team_logos", "streams"} \cap today_fixtures[i].keys = {}

\* A run returned two or more records, one of a task whose request failed
\* and one of a task whose response did not parse.
C10_Witness ==
    /\ vpc = "done"
    /\ Len(processed_fixtures) >= 2
    /\ \E i, j \in 1..Len(task) : task[i].fetch = "failed" /\ task[j].fetch = "parse_error"

\* The enrichment fields of a record.
EnrichmentFields == {"team_logos", "streams", "starting_lineups", "league_table"}

\* C11: every record of a run's output has each enrichment field
\* (team_logos, streams, starting_lineups, league_table), holding a
\* container that is empty when the page had no such section or the fetch
\* failed: no enrichment field is absent from a record.
C11_EnrichmentFieldsPresent ==
    vpc = "done" =>
        \A k \in 1..Len(Output) : EnrichmentFields \subseteq Output[k].keys

\* C12: a fixture whose identifier could not be extracted is dropped: every
\* record of the output of a run has an event identifier.
C12_EveryRecordHasId ==
    vpc = "done" =>
        \A k \in 1..Len(Output) : "event_id" \in Output[k].keys

\* C13: ingestion is deterministic in its inputs: two runs given the same
\* upstream documents and the same date produce the same records, field for
\* field and list fields as ordered lists, for every scheduling of the
\* worker threads: the record a run made of a stub whose page was fetched is
\* the record every scheduling makes of that stub and that page.
C13_RecordsDetermined ==
    vpc = "done" =>
        \A i \in 1..Len(task) :
            ~TaskFailed(i) =>
                \A record \in Enrichments(Stubs[i]) : today_fixtures[i] = record

\* The stubs that have a detail URL.
WithDetailUrl == { i \in 1..Len(today_fixtures) : "event_url" \in today_fixtures[i].keys }

\* C14: enrichment runs under a bounded worker pool: at every moment the
\* detail tasks executing are at most max_workers, there is one task per
\* stub, and once the run returned a fetch was made for exactly the stubs
\* that have a detail URL, once each.
C14_BoundedPool ==
    /\ Cardinality(Running) <= MaxWorkers
    /\ vpc = "as_completed" => Len(task) = Len(today_fixtures)
    /\ (vpc = "done" /\ task /= <<>>) =>
          /\ \A i \in 1..Len(task) : (i \in WithDetailUrl) <=> (task[i].fetch /= "none")
          /\ progress.completed_tasks = Cardinality(WithDetailUrl)

\* Every worker is busy and a task with a detail URL waits in the queue.
C14_Witness ==
    /\ Cardinality(Running) = MaxWorkers
    /\ \E i \in WithDetailUrl : task[i].st = "pending"

\* The fetch calls made so far: the listing, and one per task that fetched.
FetchCalls ==
    (IF vpc \in {"off", "start"} THEN 0 ELSE 1)
    + Cardinality({ i \in 1..Len(task) : task[i].fetch /= "none" })

\* C15: every fetch call increments exactly one of the two counters:
\* successful_requests + failed_requests is the number of fetch calls made,
\* and failed_requests counts the calls that returned no document.
C15_OneCounterPerFetch ==
    /\ stats.successful_requests + stats.failed_requests = FetchCalls
    /\ task /= <<>> =>
          stats.failed_requests = Cardinality({ i \in 1..Len(task) : task[i].fetch = "failed" })

\* How many times a record is in a list of records.
Count(record, records) == Cardinality({ k \in 1..Len(records) : records[k] = record })

\* C16: the result of a run does not depend on the order in which the
\* detail tasks complete: whatever that order, the records returned are the
\* results of the tasks, each as many times as the tasks produced it, so that
\* a record is found under its identifier whatever the order.
C16_CompletionOrderIrrelevant ==
    vpc = "done" =>
        /\ Len(Output) = Len(today_fixtures)
        /\ \A i \in 1..Len(today_fixtures) :
              Count(today_fixtures[i], Output) = Count(today_fixtures[i], today_fixtures)

\* A run returned whose tasks completed in another order than they were
\* submitted in, one of them for a fixture that has an identifier.
C16_Witness ==
    /\ vpc = "done"
    /\ \E a, b \in 1..Len(processed_fixtures) :
          /\ a < b
          /\ processed_fixtures[a] > processed_fixtures[b]
          /\ "event_id" \in Output[a].keys

\* C18: a detail task that exceeds the per-task timeout is abandoned and
\* enrichment returns without waiting for it: a detail fetch that never
\* completes does not prevent the run from completing.  Under SpecVetSlow,
\* where every step but the completion of a detail fetch is taken in the
\* end, every run returns.
C18_RunCompletes == <>(vpc = "done")

\* The rows of the page that are of today and carry identifier id.
TodayRowsWithId(id) ==
    { n \in 1..Len(page) :
        LET f == parse_broadcast_item(page[n])
        IN is_today(f, today) /\ "event_id" \in f.keys /\ f.event_id = id }

\* The fixture without what the detail task added to it.
AsParsed(fixture) ==
    [fixture EXCEPT !.keys = @ \ {"team_logos", "streams"},
                    !.team_logos = <<>>, !.streams = <<>>]

\* The rows of the page fixture i was built from.
SourceRows(i) ==
    { n \in 1..Len(page) : AsParsed(today_fixtures[i]) = parse_broadcast_item(page[n]) }

\* C19: within-page dedup keeps the first occurrence: in the list the parser
\* returns, of the rows of today that have one identifier, the stub kept is
\* the one built from the earliest, the later ones contribute nothing, and
\* the stubs are in the order of the rows they were built from.
C19_FirstOccurrenceWins ==
    vpc = "l414" =>
        /\ \A i \in 1..Len(today_fixtures) :
              "event_id" \in today_fixtures[i].keys =>
                  \E first \in TodayRowsWithId(today_fixtures[i].event_id) :
                      /\ \A n \in TodayRowsWithId(today_fixtures[i].event_id) : first <= n
                      /\ SourceRows(i) = {first}
        /\ \A i, j \in 1..Len(today_fixtures) :
              i < j => \A m \in SourceRows(i), n \in SourceRows(j) : m < n

\* The parser returned its stubs for a page on which a later row of today
\* repeats the identifier of an earlier one, after another stub.
C19_Witness ==
    /\ vpc = "l414"
    /\ \E i \in 1..Len(today_fixtures) :
          /\ i > 1
          /\ "event_id" \in today_fixtures[i].keys
          /\ Cardinality(TodayRowsWithId(today_fixtures[i].event_id)) = 2

\* The row's date text gives a normalized timestamp ("<d> <Month> at <h:m>").
HasTimestamp(row) == row.evdesc.form = "full"

\* The calendar day of the row's normalized timestamp is `day`.
TimestampIs(row, day) ==
    HasTimestamp(row) /\ row.evdesc.day = day.day /\ row.evdesc.month = day.month

\* The day of the month is in the row's raw date text, as a whole token before
\* the month's name.
TokenInRawDate(row, day) == row.evdesc.form /= "none" /\ row.evdesc.day = day.day

\* Row n is the first row of the page that has its identifier (or has none).
NotARepeat(n) ==
    \A m \in 1..(n - 1) :
        LET f == parse_broadcast_item(page[m])
            g == parse_broadcast_item(page[n])
        IN ~({"event_id"} \subseteq (f.keys \cap g.keys) /\ f.event_id = g.event_id)

\* Row n was taken as a fixture of today.
TakenAsToday(n) == \E i \in 1..Len(today_fixtures) : n \in SourceRows(i)

\* C20 as stated: a stub is of today if it has a normalized timestamp whose
\* calendar day is the current day; otherwise if the current day of the month
\* is a token of its raw date string; otherwise not.
C20_IsTodayAsStated ==
    vpc = "l414" =>
        \A n \in 1..Len(page) :
            NotARepeat(n) =>
                (TakenAsToday(n) <=> (TimestampIs(page[n], today) \/ TokenInRawDate(page[n], today)))

\* C20 as amended: a stub that has a normalized timestamp is of today exactly
\* when the timestamp's calendar day is the current day; a stub that has none
\* is of today exactly when the current day of the month is a token of its
\* raw date string; the raw string is not consulted when there is a timestamp.
C20_IsTodayAsCoded ==
    vpc = "l414" =>
        \A n \in 1..Len(page) :
            NotARepeat(n) =>
                (TakenAsToday(n) <=> IF HasTimestamp(page[n]) THEN TimestampIs(page[n], today)
                                     ELSE TokenInRawDate(page[n], today))

\* The parser returned stubs for a page that has a row whose timestamp is of
\* another month and whose raw text has today's day of the month, and a row
\* without timestamp whose raw text has it.
C20_Witness ==
    /\ vpc = "l414"
    /\ \E m, n \in 1..Len(page) :
          /\ HasTimestamp(page[m]) /\ ~TimestampIs(page[m], today)
          /\ TokenInRawDate(page[m], today)
          /\ ~TakenAsToday(m)
          /\ ~HasTimestamp(page[n]) /\ TokenInRawDate(page[n], today)
          /\ TakenAsToday(n)

\* The fields of a stub that the schedule parser sets (competition is set by
\* vet.py:85-87 and read nowhere; the fixtures here carry none).
StubFields ==
    {"event_id", "matchup", "event_url", "competition", "date_time",
     "parsed_datetime", "is_live"}

\* The stub fields of a fixture dict: which are set, and their values.
StubPart(fixture) ==
    [keys |-> fixture.keys \cap StubFields,
     matchup |-> fixture.matchup,
     event_url |-> fixture.event_url,
     event_id |-> fixture.event_id,
     date_time |-> fixture.date_time,
     parsed_datetime |-> fixture.parsed_datetime,
     is_live |-> fixture.is_live]

\* C21: enrichment changes only enrichment fields: once the run returned,
\* the stub fields of every fixture are those the schedule parser produced,
\* whether its detail task succeeded or failed, and a stub without a detail
\* URL is the dict the parser produced, no fetch having been made for it.
C21_EnrichmentFrame ==
    (vpc = "done" /\ task /= <<>>) =>
        LET stubs == Stubs
        IN \A i \in 1..Len(task) :
              /\ StubPart(today_fixtures[i]) = StubPart(stubs[i])
              /\ "event_url" \notin stubs[i].keys
                    => /\ today_fixtures[i] = stubs[i]
                       /\ task[i].fetch = "none"

\* A run returned a stub without a detail URL, a fixture whose fetch failed
\* and a fixture enriched with streams.
C21_Witness ==
    /\ vpc = "done"
    /\ \E i, j, k \in 1..Len(task) :
          /\ "event_url" \notin today_fixtures[i].keys /\ PositionsOf(i) /= {}
          /\ TaskFailed(j) /\ PositionsOf(j) /= {}
          /\ "streams" \in today_fixtures[k].keys /\ PositionsOf(k) /= {}

\* C24: progress accounting is exact: completed_tasks never exceeds
\* total_tasks, and when process_all_fixtures_concurrent has returned,
\* completed_tasks equals total_tasks, the number of fixtures passed in, for
\* every mix of fixtures with and without a detail URL and every outcome of
\* the detail tasks.
C24_ProgressExact ==
    /\ progress.completed_tasks <= progress.total_tasks
    /\ (vpc = "done" /\ task /= <<>>) =>
          /\ progress.total_tasks = Len(today_fixtures)
          /\ progress.completed_tasks = progress.total_tasks

NextVet ==
    \/ get_fixtures_for_sport
    \/ ListingRequestFails
    \/ ListingParseFails
    \/ Submit
    \/ \E i \in 1..MaxRows : StartTask(i)
    \/ \E i \in 1..MaxRows : RunTask(i)
    \/ \E i \in 1..MaxRows : RunTaskNoUrl(i)
    \/ \E i \in 1..MaxRows : Collect(i)
    \/ ReturnFixtures

(***************************************************************************)
(* src/dut.py: main (dut.py:183-225).  The scraper class is the one of     *)
(* api.py, except that its save_to_json has no try/except.                 *)
(***************************************************************************)
MaxItems == 2       \* list items on the page dut.py scrapes

RECURSIVE SeqsUpTo(_, _)
SeqsUpTo(S, n) ==
    IF n = 0 THEN { <<>> }
    ELSE LET shorter == SeqsUpTo(S, n - 1)
         IN shorter \cup { Append(q, x) : q \in { r \in shorter : Len(r) = n - 1 }, x \in S }

\* What scrape_broadcasts can return for a page that was fetched and parsed.
DutPages == SeqsUpTo({B0, B1, B2, B3}, MaxItems)

InitDutAt(start) ==
    /\ dpc = IF start THEN "start" ELSE "off"
    /\ dbroadcasts = <<>>
    /\ dfiles \in (IF start THEN InitFiles ELSE { [f \in FileNames |-> Absent] })
    /\ doff = 0

\* dut.py:191: `if broadcasts:` chooses the saves or the message.
DutBranch(bs) == IF bs /= <<>> THEN "l200" ELSE "returned"

\* dut.py:189-197, 24-41: the page was fetched and parsed.
DutScrape ==
    /\ dpc = "start"
    /\ \E bs \in DutPages :
          /\ dbroadcasts' = bs
          /\ dpc' = DutBranch(bs)
    /\ UNCHANGED <<dfiles, doff>>
    /\ UNCHANGED <<apiVars, vetVars>>

\* dut.py:43-48: scrape_broadcasts caught an exception and returned [].
DutScrapeFails ==
    /\ dpc = "start"
    /\ dbroadcasts' = <<>>
    /\ dpc' = DutBranch(<<>>)
    /\ UNCHANGED <<dfiles, doff>>
    /\ UNCHANGED <<apiVars, vetVars>>

\* The file and the data of the save_to_json call main is at or in.
DutFile == IF dpc \in {"l200", "w200"} THEN "live.json" ELSE "upcoming.json"
DutData == IF dpc \in {"l200", "w200"} THEN enhanced_live(dbroadcasts)
           ELSE enhanced_upcoming(dbroadcasts)

\* dut.py:178: open(filename, 'w') creates or truncates the file.
DutSaveOpen ==
    /\ dpc \in {"l200", "l201"}
    /\ dfiles' = [dfiles EXCEPT ![DutFile] = OpenForWriting(dfiles[DutFile])]
    /\ doff' = 0
    /\ dpc' = IF dpc = "l200" THEN "w200" ELSE "w201"
    /\ UNCHANGED dbroadcasts
    /\ UNCHANGED <<apiVars, vetVars>>

\* dut.py:176-180, 200-201: save_to_json has no handler and main has none:
\* what open or json.dump raises leaves main.
DutRaised(at) == "raised"

\* dut.py:178: open raises (no permission, no such directory).
DutSaveOpenFails ==
    /\ dpc \in {"l200", "l201"}
    /\ dpc' = DutRaised(dpc)
    /\ UNCHANGED <<dbroadcasts, dfiles, doff>>
    /\ UNCHANGED <<apiVars, vetVars>>

\* dut.py:179-180: json.dump writes the next chunk; after the last one the
\* file is closed and the call returns.
DutSaveWrite ==
    /\ dpc \in {"w200", "w201"}
    /\ LET k == doff + 1
       IN /\ dfiles' = [dfiles EXCEPT ![DutFile] =
                           Holding(WriteAt(dfiles[DutFile].content, k, Serialize(DutData)[k]))]
          /\ doff' = IF k = NChunks THEN 0 ELSE k
          /\ dpc' = IF k < NChunks THEN dpc
                    ELSE IF dpc = "w200" THEN "l201" ELSE "returned"
    /\ UNCHANGED dbroadcasts
    /\ UNCHANGED <<apiVars, vetVars>>

\* dut.py:179: json.dump raises (a write error, a value that is not
\* serialisable).
DutSaveWriteFails ==
    /\ dpc \in {"w200", "w201"}
    /\ dpc' = DutRaised(dpc)
    /\ UNCHANGED <<dbroadcasts, dfiles, doff>>
    /\ UNCHANGED <<apiVars, vetVars>>

\* C17: no failure is fatal: whatever fails (listing fetch, detail fetch,
\* parse, persist), a run returns normally and no exception propagates to
\* its caller; for main of dut.py: no exception leaves main.
C17_NoFailureIsFatal == dpc /= "raised"

NextDut ==
    \/ DutScrape
    \/ DutScrapeFails
    \/ DutSaveOpen
    \/ DutSaveOpenFails
    \/ DutSaveWrite
    \/ DutSaveWriteFails

(***************************************************************************)
(* Specifications.                                                         *)
(***************************************************************************)
InitApi == InitApiAt(TRUE) /\ InitVetAt(FALSE) /\ InitDutAt(FALSE)
InitVet == InitApiAt(FALSE) /\ InitVetAt(TRUE) /\ InitDutAt(FALSE)
InitDut == InitApiAt(FALSE) /\ InitVetAt(FALSE) /\ InitDutAt(TRUE)

Init == InitApi \/ InitVet \/ InitDut
Next == NextApi \/ NextVet \/ NextDut

Spec == Init /\ [][Next]_vars
SpecApi == InitApi /\ [][NextApi]_vars
SpecVet == InitVet /\ [][NextVet]_vars
SpecDut == InitDut /\ [][NextDut]_vars

\* run_scraper_and_get_data when a detail fetch may take for ever: the main
\* thread and the pool's workers are scheduled (weak fairness of every step),
\* except that the upstream owes no answer to a detail request (no fairness
\* of RunTask).
SpecVetSlow ==
    /\ InitVet
    /\ [][NextVet]_vars
    /\ WF_vars(get_fixtures_for_sport \/ ListingRequestFails \/ ListingParseFails)
    /\ WF_vars(Submit)
    /\ WF_vars(\E i \in 1..MaxRows : StartTask(i))
    /\ WF_vars(\E i \in 1..MaxRows : RunTaskNoUrl(i))
    /\ WF_vars(\E i \in 1..MaxRows : Collect(i))
    /\ WF_vars(ReturnFixtures)
=============================================================================
